---------------------------- MODULE Spec2Model ----------------------------
(***************************************************************************)
(* Model of convert_column_names.py: the per-file renamer                  *)
(* convert_sql_file (read, backup copy, ordered substitution of the        *)
(* column_mappings table, write back) and the driver main (base directory  *)
(* check, loop over sql_files, running total, summary).                    *)
(*                                                                         *)
(* Text is a sequence of one-character strings.  File contents on disk     *)
(* are sequences of the same symbols standing for bytes; "CR" and "LF"     *)
(* stand for the bytes 0x0D and 0x0A and "xFF" for a byte that is not      *)
(* valid UTF-8.  Text-mode reading and writing translate line endings as   *)
(* Python's open() does with its default newline argument.                 *)
(***************************************************************************)
EXTENDS Integers, Sequences, FiniteSets, TLC

(* Bounds of the explored inputs *)
MaxPieces == 3
MaxRuns == 2

VARIABLES
    dirExists,            \* backup_dir.exists()
    linesep,              \* os.linesep of the platform the script runs on
    fs,                   \* fs[f]: bytes of sql_files[f] on disk, or Missing
    bak,                  \* bak[f]: bytes of sql_files[f] + '.backup', or Missing
    pc,                   \* position of the process
    i,                    \* index of sql_file in the for loop of main
    ip,                   \* position inside the body of convert_sql_file
    content,              \* local of convert_sql_file
    modified_content,     \* local of convert_sql_file
    replacements_made,    \* local of convert_sql_file (indices of applied pairs)
    total_replacements,   \* local of main
    out,                  \* lines printed by this run
    ops,                  \* history: file operations attempted by this run
    entry,                \* history: bytes of the file when convert_sql_file was entered
    hist                  \* history: fs at the start of each run

vars == <<dirExists, linesep, fs, bak, pc, i, ip, content, modified_content,
          replacements_made, total_replacements, out, ops, entry, hist>>

(* fs[f] and bak[f] of a path that does not exist *)
Missing == <<"ENOENT">>

(* ------------------------------ characters ---------------------------- *)

Lower == {"a","b","c","d","e","f","g","h","i","j","k","l","m",
          "n","o","p","q","r","s","t","u","v","w","x","y","z"}
Upper == {"A","B","C","D","E","F","G","H","I","J","K","L","M",
          "N","O","P","Q","R","S","T","U","V","W","X","Y","Z"}
Digit == {"0","1","2","3","4","5","6","7","8","9"}

(* \w of the re module *)
WordChars == Lower \cup Upper \cup Digit \cup {"_"}

(* ------------------------------ main: constants ----------------------- *)

sql_files == <<"04-data-users-01.sql", "05-data-regions-01.sql",
               "06-data-categories-01.sql", "09-data-keywords-01.sql",
               "11-data-schedules-01.sql">>

Files == 1..Len(sql_files)

(* column_mappings, in insertion order: <<camel_case, snake_case>> *)
column_mappings ==
    <<
       <<<<"c","r","e","a","t","e","d","A","t">>,
         <<"c","r","e","a","t","e","d","_","a","t">>>>,
       <<<<"u","p","d","a","t","e","d","A","t">>,
         <<"u","p","d","a","t","e","d","_","a","t">>>>,
       <<<<"v","e","r","i","f","i","e","d","A","t">>,
         <<"v","e","r","i","f","i","e","d","_","a","t">>>>,
       <<<<"r","e","g","i","o","n","I","d">>,
         <<"r","e","g","i","o","n","_","i","d">>>>,
       <<<<"c","a","t","e","g","o","r","y","I","d">>,
         <<"c","a","t","e","g","o","r","y","_","i","d">>>>,
       <<<<"u","s","e","r","I","d">>,
         <<"u","s","e","r","_","i","d">>>>,
       <<<<"p","h","e","n","o","m","e","n","o","n","I","d">>,
         <<"p","h","e","n","o","m","e","n","o","n","_","i","d">>>>,
       <<<<"c","a","t","a","t","a","n","S","u","r","v","e","i","I","d">>,
         <<"c","a","t","a","t","a","n","_","s","u","r","v","e","i","_","i","d">>>>,
       <<<<"s","c","r","a","p","p","i","n","g","B","e","r","i","t","a","I","d">>,
         <<"s","c","r","a","p","p","i","n","g","_","b","e","r","i","t","a","_","i","d">>>>,
       <<<<"r","e","s","p","o","n","d","e","n","I","d">>,
         <<"r","e","s","p","o","n","d","e","n","_","i","d">>>>,
       <<<<"i","s","V","e","r","i","f","i","e","d">>,
         <<"i","s","_","v","e","r","i","f","i","e","d">>>>,
       <<<<"i","s","A","c","t","i","v","e">>,
         <<"i","s","_","a","c","t","i","v","e">>>>,
       <<<<"r","e","g","i","o","n","C","o","d","e">>,
         <<"r","e","g","i","o","n","_","c","o","d","e">>>>,
       <<<<"a","n","a","l","y","s","i","s","T","y","p","e">>,
         <<"a","n","a","l","y","s","i","s","_","t","y","p","e">>>>,
       <<<<"n","o","m","o","r","R","e","s","p","o","n","d","e","n">>,
         <<"n","o","m","o","r","_","r","e","s","p","o","n","d","e","n">>>>,
       <<<<"m","a","t","c","h","C","o","u","n","t">>,
         <<"m","a","t","c","h","_","c","o","u","n","t">>>>,
       <<<<"p","e","r","i","o","d","e","S","u","r","v","e","i">>,
         <<"p","e","r","i","o","d","e","_","s","u","r","v","e","i">>>>,
       <<<<"s","t","a","r","t","D","a","t","e">>,
         <<"s","t","a","r","t","_","d","a","t","e">>>>,
       <<<<"e","n","d","D","a","t","e">>,
         <<"e","n","d","_","d","a","t","e">>>>,
       <<<<"i","d","B","e","r","i","t","a">>,
         <<"i","d","_","b","e","r","i","t","a">>>>,
       <<<<"p","o","r","t","a","l","B","e","r","i","t","a">>,
         <<"p","o","r","t","a","l","_","b","e","r","i","t","a">>>>,
       <<<<"l","i","n","k","B","e","r","i","t","a">>,
         <<"l","i","n","k","_","b","e","r","i","t","a">>>>,
       <<<<"t","a","n","g","g","a","l","B","e","r","i","t","a">>,
         <<"t","a","n","g","g","a","l","_","b","e","r","i","t","a">>>>,
       <<<<"t","a","n","g","g","a","l","S","c","r","a","p">>,
         <<"t","a","n","g","g","a","l","_","s","c","r","a","p">>>>,
       <<<<"m","a","t","c","h","e","d","K","e","y","w","o","r","d","s">>,
         <<"m","a","t","c","h","e","d","_","k","e","y","w","o","r","d","s">>>>,
       <<<<"p","o","r","t","a","l","U","r","l">>,
         <<"p","o","r","t","a","l","_","u","r","l">>>>,
       <<<<"m","a","x","P","a","g","e","s">>,
         <<"m","a","x","_","p","a","g","e","s">>>>,
       <<<<"d","e","l","a","y","M","s">>,
         <<"d","e","l","a","y","_","m","s">>>>,
       <<<<"c","r","o","n","S","c","h","e","d","u","l","e">>,
         <<"c","r","o","n","_","s","c","h","e","d","u","l","e">>>>,
       <<<<"l","a","s","t","R","u","n">>,
         <<"l","a","s","t","_","r","u","n">>>>,
       <<<<"n","e","x","t","R","u","n">>,
         <<"n","e","x","t","_","r","u","n">>>>
    >>

NPairs == Len(column_mappings)
camel(k) == column_mappings[k][1]
snake(k) == column_mappings[k][2]

(* ------------------------------ re: \b key \b ------------------------- *)

IsWordAt(s, p) == p \in 1..Len(s) /\ s[p] \in WordChars

(* variant: the pattern without its \b anchors *)
WordBoundaryAnywhere(s, p) == TRUE

(* \b before position p: exactly one of s[p-1], s[p] is a word character *)
WordBoundary(s, p) == IsWordAt(s, p - 1) # IsWordAt(s, p)

(* re.escape(camel_case) matched literally at p (no flags: case-sensitive) *)
LiteralAt(s, p, key) ==
    /\ p + Len(key) - 1 <= Len(s)
    /\ \A j \in 1..Len(key) : s[p + j - 1] = key[j]

(* pattern = r'\b' + re.escape(camel_case) + r'\b' matches at p *)
MatchAt(s, p, key) ==
    /\ WordBoundary(s, p)
    /\ LiteralAt(s, p, key)
    /\ WordBoundary(s, p + Len(key))

(* re.search(pattern, s) *)
search(s, key) == \E p \in 1..Len(s) : MatchAt(s, p, key)

(* start of the leftmost match at or after p; Len(s) + 1 when there is none *)
NextMatch(s, p, key) ==
    CHOOSE q \in p..(Len(s) + 1) :
        /\ q = Len(s) + 1 \/ MatchAt(s, q, key)
        /\ \A n \in p..(q - 1) : ~MatchAt(s, n, key)

(* re.sub(pattern, repl, s): from position p, the text up to the leftmost
   match, the replacement, and the same again after the match *)
RECURSIVE subFrom(_, _, _, _)
subFrom(s, p, key, repl) ==
    CHOOSE r \in { IF q > Len(s)
                   THEN SubSeq(s, p, Len(s))
                   ELSE SubSeq(s, p, q - 1) \o repl \o subFrom(s, q + Len(key), key, repl)
                   : q \in {NextMatch(s, p, key)} } : TRUE

(* variant: count=1, only the first match is replaced *)
subFirstOnly(s, key, repl) ==
    LET q == NextMatch(s, 1, key)
    IN  IF q > Len(s) THEN s
        ELSE SubSeq(s, 1, q - 1) \o repl \o SubSeq(s, q + Len(key), Len(s))

sub(s, key, repl) == subFrom(s, 1, key, repl)

(* variant: one record per occurrence instead of one per pair *)
ApplyPairPerOccurrence(k, acc) ==
    IF search(acc[1], camel(k))
    THEN <<sub(acc[1], camel(k), snake(k)),
           acc[2] \o [n \in 1..Cardinality({p \in 1..Len(acc[1]) : MatchAt(acc[1], p, camel(k))})
                        |-> k]>>
    ELSE acc

(* one iteration of the for loop over column_mappings.items() *)
ApplyPair(k, acc) ==
    IF search(acc[1], camel(k))
    THEN <<sub(acc[1], camel(k), snake(k)), Append(acc[2], k)>>
    ELSE acc

(* the whole loop, from pair k on: <<modified_content, replacements_made>>.
   Each iteration's result is bound as a value (the singleton set) before
   the next iteration starts, as the loop reassigns modified_content. *)
RECURSIVE ApplyMappings(_, _)
ApplyMappings(k, acc) ==
    IF k > NPairs THEN acc
    ELSE CHOOSE r \in { ApplyMappings(k + 1, next) : next \in {ApplyPair(k, acc)} } : TRUE

(* ------------------------------ text-mode I/O ------------------------- *)

BadByte == "xFF"

(* bytes.decode('utf-8') succeeds *)
Decodable(bytes) == \A p \in 1..Len(bytes) : bytes[p] # BadByte

(* variant: newline='' on the reading side only, no translation *)
readUntranslated(bytes) == bytes

(* f.read() with newline=None (universal newlines): the '\n' of a '\r\n' is
   dropped and every '\r' becomes '\n' *)
read(bytes) ==
    LET pairs == [p \in 1..Len(bytes) |->
                    <<IF p = 1 THEN "" ELSE bytes[p - 1], bytes[p]>>]
        AfterCR(pr) == ~(pr[1] = "CR" /\ pr[2] = "LF")
        kept == SelectSeq(pairs, AfterCR)
    IN  [k \in 1..Len(kept) |-> IF kept[k][2] = "CR" THEN "LF" ELSE kept[k][2]]

(* f.write(text) with newline=None: every '\n' is written as os.linesep *)
write(text, sep) ==
    LET start(k) == k + (Len(sep) - 1) * Cardinality({m \in 1..(k - 1) : text[m] = "LF"})
        total == start(Len(text) + 1) - 1
    IN  [j \in 1..total |->
            LET k == CHOOSE c \in 1..Len(text) : start(c) <= j /\ j < start(c + 1)
            IN  IF text[k] = "LF" THEN sep[j - start(k) + 1] ELSE text[k]]

(* shutil.copy2(src, dst): the bytes of src *)
copy2(bytes) == bytes

(* ------------------------------ inputs -------------------------------- *)

(* fragments the single-file documents are assembled from *)
Pieces ==
    << <<"u","s","e","r","I","d">>,                 \* a key
       <<"c","r","e","a","t","e","d","A","t">>,     \* a key
       <<"_">>,                                     \* an identifier character
       <<" ">>, <<"CR">>, <<"LF">> >>               \* separator, line ends

RECURSIVE Flatten(_)
Flatten(ps) == IF ps = << >> THEN << >> ELSE Pieces[Head(ps)] \o Flatten(Tail(ps))

PieceDocs ==
    { Flatten(ps) : ps \in UNION { [1..n -> 1..Len(Pieces)] : n \in 0..MaxPieces } }

(* the INSERT statement of the end-to-end scenario *)
InsertUsers ==
    <<"I","N","S","E","R","T"," ","I","N","T","O"," ","u","s","e","r","s"," ",
      "(","u","s","e","r","I","d",","," ","c","r","e","a","t","e","d","A","t",
      ","," ","i","s","V","e","r","i","f","i","e","d",")"," ",
      "V","A","L","U","E","S"," ","(","1",","," ","'","2","0","2","4","-",
      "0","1","-","0","1","'",","," ","t","r","u","e",")",";">>

(* keys as whole tokens (userId and isVerified twice), inside longer
   identifiers, next to digits and in other cases *)
MixedTokens ==
    <<"(","u","s","e","r","I","d",",","i","s","V","e","r","i","f","i","e","d",",",
      "c","r","e","a","t","e","d","A","t",",","u","s","e","r","I","d",",",
      "i","s","V","e","r","i","f","i","e","d",",","u","s","e","r","I","d","s",",",
      "1","u","s","e","r","I","d",",","u","s","e","r","I","d","2",",",
      "U","s","e","r","I","d",")","CR","LF">>

(* not UTF-8 *)
NotUtf8 == <<"u","s","e","r","I","d"," ","xFF">>

ExampleDocs == { InsertUsers, MixedTokens, NotUtf8 }

Docs == PieceDocs \cup ExampleDocs

(* contents the five files may have when the driver is explored *)
DriverDocs(f) ==
    CASE f = 1 -> { <<"u","s","e","r","I","d",",","c","r","e","a","t","e","d","A","t","LF">> }
      [] f = 2 -> { <<"r","e","g","i","o","n","C","o","d","e","CR","LF">> }
      [] f = 3 -> { <<"i","s","A","c","t","i","v","e"," ","i","s","A","c","t","i","v","e">>,
                    <<"i","s","A","c","t","i","v","e","xFF">> }
      [] f = 4 -> { <<"i","d",";","LF">> }
      [] f = 5 -> { <<"l","a","s","t","R","u","n"," ","n","e","x","t","R","u","n","d">> }

LineSeps == { <<"LF">>, <<"CR","LF">> }

(* ------------------------------ state machine ------------------------- *)

Line(msg, f, made, n) == [msg |-> msg, file |-> f, made |-> made, n |-> n]
Op(op, f, ok) == [op |-> op, file |-> f, ok |-> ok]

InitProcess ==
    /\ pc = "main"
    /\ i = 0
    /\ ip = 0
    /\ content = << >>
    /\ modified_content = << >>
    /\ replacements_made = << >>
    /\ total_replacements = 0
    /\ out = << >>
    /\ ops = << >>
    /\ entry = << >>
    /\ hist = <<fs>>
    /\ bak = [f \in Files |-> Missing]

(* the driver: no base directory (and so no file), or any subset of the five
   files *)
Init ==
    /\ dirExists \in BOOLEAN
    /\ linesep \in LineSeps
    /\ fs \in [Files -> UNION { DriverDocs(f) : f \in Files } \cup {Missing}]
    /\ \A f \in Files : fs[f] \in (IF dirExists THEN DriverDocs(f) ELSE {}) \cup {Missing}
    /\ InitProcess

(* one file, any bounded document *)
InitConv ==
    /\ dirExists \in BOOLEAN
    /\ linesep \in LineSeps
    /\ \E d \in (IF dirExists THEN Docs ELSE {Missing}) :
          fs = [f \in Files |-> IF f = 1 THEN d ELSE Missing]
    /\ InitProcess

(* variants: the file is written before it is copied; the copy precedes the read *)
PipelineWriteFirst == <<"read", "subst", "write", "backup">>
PipelineBackupFirst == <<"backup", "read", "subst", "write">>

(* statements of convert_sql_file that touch the file system or the text,
   in program order *)
Pipeline == <<"read", "backup", "subst", "write">>

At(step) == pc = "conv" /\ ip \in 1..Len(Pipeline) /\ Pipeline[ip] = step

Locals == <<content, modified_content, replacements_made>>
Env == <<dirExists, linesep>>

(* variant: the loop of main catches the exception and goes on *)
RaiseCaught ==
    /\ pc' = "loop"
    /\ i' = i + 1
    /\ UNCHANGED ip

(* an exception leaves convert_sql_file and main: nothing catches it *)
Raise ==
    /\ pc' = "crashed"
    /\ UNCHANGED <<i, ip>>

(* variant: the error is printed and main goes on *)
MainNoDirFallsThrough ==
    /\ pc = "main"
    /\ ~dirExists
    /\ out' = Append(out, Line("Error: Backup directory not found", 0, << >>, 0))
    /\ total_replacements' = 0
    /\ i' = 1
    /\ pc' = "loop"
    /\ UNCHANGED <<dirExists, linesep, fs, bak, ip, content, modified_content,
                   replacements_made, ops, entry, hist>>

(* if not backup_dir.exists(): print the error and return *)
MainNoDir ==
    /\ pc = "main"
    /\ ~dirExists
    /\ out' = Append(out, Line("Error: Backup directory not found", 0, << >>, 0))
    /\ pc' = "returned"
    /\ UNCHANGED <<Env, fs, bak, i, ip, Locals, total_replacements, ops, entry, hist>>

MainStart ==
    /\ pc = "main"
    /\ dirExists
    /\ total_replacements' = 0
    /\ out' = Append(out, Line("Starting column name conversion", 0, << >>, 0))
    /\ i' = 1
    /\ pc' = "loop"
    /\ UNCHANGED <<Env, fs, bak, ip, Locals, ops, entry, hist>>

(* for sql_file in sql_files: file_path.exists() is false *)
LoopMissing ==
    /\ pc = "loop"
    /\ i \in Files
    /\ fs[i] = Missing
    /\ out' = Append(out, Line("Warning: File not found", i, << >>, 0))
    /\ i' = i + 1
    /\ UNCHANGED <<Env, fs, bak, pc, ip, Locals, total_replacements, ops, entry, hist>>

(* file_path.exists(): convert_sql_file(file_path) is entered *)
LoopCall ==
    /\ pc = "loop"
    /\ i \in Files
    /\ fs[i] # Missing
    /\ out' = Append(out, Line("Processing file", i, << >>, 0))
    /\ pc' = "conv"
    /\ ip' = 1
    /\ content' = << >>
    /\ modified_content' = << >>
    /\ replacements_made' = << >>
    /\ entry' = fs[i]
    /\ UNCHANGED <<Env, fs, bak, i, total_replacements, ops, hist>>

(* with open(file_path, 'r', encoding='utf-8') as f: content = f.read() *)
ReadOk ==
    /\ At("read")
    /\ Decodable(fs[i])
    /\ content' = read(fs[i])
    /\ ops' = Append(ops, Op("read", i, TRUE))
    /\ ip' = ip + 1
    /\ UNCHANGED <<Env, fs, bak, pc, i, modified_content, replacements_made,
                   total_replacements, out, entry, hist>>

(* open or read raises OSError, or the decoder raises UnicodeDecodeError *)
ReadFail ==
    /\ At("read")
    /\ ops' = Append(ops, Op("read", i, FALSE))
    /\ Raise
    /\ UNCHANGED <<Env, fs, bak, Locals, total_replacements, out, entry, hist>>

(* variant: an existing backup is kept *)
BackupOkKeepsExisting ==
    /\ At("backup")
    /\ bak' = [bak EXCEPT ![i] = IF bak[i] = Missing THEN fs[i] ELSE bak[i]]
    /\ ops' = Append(ops, Op("copy", i, TRUE))
    /\ out' = Append(out, Line("Created backup", i, << >>, 0))
    /\ ip' = ip + 1
    /\ UNCHANGED <<dirExists, linesep, fs, pc, i, content, modified_content,
                   replacements_made, total_replacements, entry, hist>>

(* shutil.copy2(file_path, backup_path); print("Created backup") *)
BackupOk ==
    /\ At("backup")
    /\ bak' = [bak EXCEPT ![i] = copy2(fs[i])]
    /\ ops' = Append(ops, Op("copy", i, TRUE))
    /\ out' = Append(out, Line("Created backup", i, << >>, 0))
    /\ ip' = ip + 1
    /\ UNCHANGED <<Env, fs, pc, i, Locals, total_replacements, entry, hist>>

(* copy2 raises: the destination is untouched, truncated, or fully written
   (copystat failed) *)
BackupFail ==
    /\ At("backup")
    /\ \E b \in {bak[i], << >>, copy2(fs[i])} : bak' = [bak EXCEPT ![i] = b]
    /\ ops' = Append(ops, Op("copy", i, FALSE))
    /\ Raise
    /\ UNCHANGED <<Env, fs, Locals, total_replacements, out, entry, hist>>

(* modified_content = content; the for loop over column_mappings.items() *)
Substitute ==
    /\ At("subst")
    /\ LET r == ApplyMappings(1, <<content, << >> >>)
       IN  /\ modified_content' = r[1]
           /\ replacements_made' = r[2]
    /\ ip' = ip + 1
    /\ UNCHANGED <<Env, fs, bak, pc, i, content, total_replacements, out, ops,
                   entry, hist>>

(* with open(file_path, 'w', encoding='utf-8') as f: f.write(modified_content) *)
WriteOk ==
    /\ At("write")
    /\ fs' = [fs EXCEPT ![i] = write(modified_content, linesep)]
    /\ ops' = Append(ops, Op("write", i, TRUE))
    /\ ip' = ip + 1
    /\ UNCHANGED <<Env, bak, pc, i, Locals, total_replacements, out, entry, hist>>

(* open(..., 'w') raises (file untouched) or truncates and the write raises *)
WriteFail ==
    /\ At("write")
    /\ \E b \in {fs[i], << >>} : fs' = [fs EXCEPT ![i] = b]
    /\ ops' = Append(ops, Op("write", i, FALSE))
    /\ Raise
    /\ UNCHANGED <<Env, bak, Locals, total_replacements, out, entry, hist>>

(* variant: total_replacements = replacements *)
ReturnOverwritesTotal ==
    /\ pc = "conv"
    /\ ip = Len(Pipeline) + 1
    /\ out' = Append(out, Line(IF replacements_made # << >>
                                THEN "Replacements made in"
                                ELSE "No replacements needed in",
                                i, replacements_made, Len(replacements_made)))
    /\ total_replacements' = Len(replacements_made)
    /\ i' = i + 1
    /\ pc' = "loop"
    /\ UNCHANGED <<dirExists, linesep, fs, bak, ip, content, modified_content,
                   replacements_made, ops, entry, hist>>

(* the report, return len(replacements_made), total_replacements += replacements *)
Return ==
    /\ pc = "conv"
    /\ ip = Len(Pipeline) + 1
    /\ out' = Append(out, Line(IF replacements_made # << >>
                                THEN "Replacements made in"
                                ELSE "No replacements needed in",
                                i, replacements_made, Len(replacements_made)))
    /\ total_replacements' = total_replacements + Len(replacements_made)
    /\ i' = i + 1
    /\ pc' = "loop"
    /\ UNCHANGED <<Env, fs, bak, ip, Locals, ops, entry, hist>>

(* after the loop: the summary *)
Summary ==
    /\ pc = "loop"
    /\ i = Len(sql_files) + 1
    /\ out' = Append(out, Line("Conversion completed! Total replacements made",
                               0, << >>, total_replacements))
    /\ pc' = "returned"
    /\ UNCHANGED <<Env, fs, bak, i, ip, Locals, total_replacements, ops, entry, hist>>

(* the script is started again after a run that returned; runs that follow
   a run ended by an exception are not explored *)
Rerun ==
    /\ pc = "returned"
    /\ dirExists
    /\ Len(hist) < MaxRuns
    /\ pc' = "main"
    /\ i' = 0
    /\ ip' = 0
    /\ content' = << >>
    /\ modified_content' = << >>
    /\ replacements_made' = << >>
    /\ total_replacements' = 0
    /\ out' = << >>
    /\ ops' = << >>
    /\ entry' = << >>
    /\ hist' = Append(hist, fs)
    /\ UNCHANGED <<Env, fs, bak>>

Next ==
    \/ MainNoDir
    \/ MainStart
    \/ LoopMissing
    \/ LoopCall
    \/ ReadOk
    \/ ReadFail
    \/ BackupOk
    \/ BackupFail
    \/ Substitute
    \/ WriteOk
    \/ WriteFail
    \/ Return
    \/ Summary
    \/ Rerun

Spec == Init /\ [][Next]_vars

SpecConv == InitConv /\ [][Next]_vars

(* ====================================================================== *)
(* Properties                                                             *)
(* ====================================================================== *)

(* ---- identifiers of a text: maximal runs of identifier characters ---- *)

Positions(s) == [p \in 1..Len(s) |-> p]

TokenStarts(s) ==
    LET starts(p) == IsWordAt(s, p) /\ ~IsWordAt(s, p - 1)
    IN  SelectSeq(Positions(s), starts)

SepStarts(s) ==
    LET starts(p) == ~IsWordAt(s, p) /\ (p = 1 \/ IsWordAt(s, p - 1))
    IN  SelectSeq(Positions(s), starts)

(* the maximal run of characters of the same class that starts at p *)
RunAt(s, p) ==
    LET e == CHOOSE q \in p..Len(s) :
                 /\ \A m \in p..q : IsWordAt(s, m) = IsWordAt(s, p)
                 /\ q = Len(s) \/ IsWordAt(s, q + 1) # IsWordAt(s, p)
    IN  SubSeq(s, p, e)

Tokens(s) == LET st == TokenStarts(s) IN [n \in 1..Len(st) |-> RunAt(s, st[n])]
Separators(s) == LET st == SepStarts(s) IN [n \in 1..Len(st) |-> RunAt(s, st[n])]

Keys == { camel(k) : k \in 1..NPairs }
ValueOf(key) == snake(CHOOSE k \in 1..NPairs : camel(k) = key)

(* the pairs whose source token is an identifier of s *)
KeysPresent(s) ==
    UNION { { k \in 1..NPairs : \E n \in 1..Len(T) : T[n] = camel(k) } : T \in {Tokens(s)} }

(* key occurs somewhere inside the longer token t *)
ProperlyContains(t, key) ==
    /\ Len(t) > Len(key)
    /\ \E p \in 1..(Len(t) - Len(key) + 1) : SubSeq(t, p, p + Len(key) - 1) = key

(* b is a with every identifier that is a key replaced by its value and
   nothing else changed *)
RenamedOnly(a, b) ==
    /\ Separators(b) = Separators(a)
    /\ IsWordAt(b, 1) = IsWordAt(a, 1)
    /\ \E Ta \in {Tokens(a)}, Tb \in {Tokens(b)} :
          /\ Len(Tb) = Len(Ta)
          /\ \A n \in 1..Len(Ta) :
                Tb[n] = IF Ta[n] \in Keys THEN ValueOf(Ta[n]) ELSE Ta[n]

(* ---- positions of the process ---------------------------------------- *)

(* the current invocation of convert_sql_file has performed step *)
Done(step) == pc = "conv" /\ \E n \in 1..Len(Pipeline) : n < ip /\ Pipeline[n] = step

(* convert_sql_file has performed every step and is about to return *)
Finished == pc = "conv" /\ ip = Len(Pipeline) + 1

LastOp == ops[Len(ops)]
Failed(op) == pc = "crashed" /\ ops # << >> /\ LastOp = Op(op, i, FALSE)

CopiedBefore(n) == \E m \in 1..(n - 1) : ops[m] = Op("copy", ops[n].file, TRUE)
ReadBefore(n) == \E m \in 1..(n - 1) : ops[m] = Op("read", ops[n].file, TRUE)

Lines(msgs) == SelectSeq(out, LAMBDA l : l.msg \in msgs)
ReportMsgs == {"Replacements made in", "No replacements needed in"}
SummaryMsgs == {"Conversion completed! Total replacements made"}
AtStart == hist[Len(hist)]

(* ---- C1 --------------------------------------------------------------
   A write to the original file is always preceded, in the same run, by a
   completed copy of that file to its .backup; as long as the copy has not
   completed - in particular when it raised - the file still has the bytes
   it had when convert_sql_file was entered. *)
C1_BackupBeforeOverwrite ==
    /\ \A n \in 1..Len(ops) : ops[n].op = "write" => CopiedBefore(n)
    /\ (pc \in {"conv", "crashed"} /\ \A n \in 1..Len(ops) : ops[n] # Op("copy", i, TRUE))
          => fs[i] = entry

C1_Witness ==
    /\ Failed("copy")
    /\ KeysPresent(content) # {}

(* ---- C2 --------------------------------------------------------------
   When convert_sql_file has succeeded, the backup holds the bytes the file
   had on disk when the invocation started, whatever backup existed before;
   in a second run these are the bytes the first run left. *)
C2_BackupIsContentAtEntry ==
    Finished =>
        /\ bak[i] = entry
        /\ entry = AtStart[i]

C2_Witness ==
    /\ Finished
    /\ Len(hist) = 2
    /\ bak[i] # hist[1][i]

(* ---- C3 --------------------------------------------------------------
   As claimed: the file written back is the file as it was, with every
   identifier that is a key replaced by its value and no other content of
   the file altered. *)
C3_OnlyKeysRenamedInFile ==
    (Finished /\ KeysPresent(entry) # {}) => RenamedOnly(entry, fs[i])

(* As the code has it: the text written is the text read with every
   identifier that is a key replaced by its value and nothing else changed;
   in the file the line endings are rewritten as os.linesep and no other
   byte differs. *)
C3_OnlyKeysRenamedInText ==
    /\ Done("subst") => RenamedOnly(content, modified_content)
    /\ Finished =>
          /\ RenamedOnly(read(entry), read(fs[i]))
          /\ write(read(fs[i]), linesep) = fs[i]

C3_Witness ==
    /\ Finished
    /\ KeysPresent(entry) # {}
    /\ \E p \in 1..Len(entry) : entry[p] = "CR"
    /\ ~RenamedOnly(entry, fs[i])

(* ---- C4 --------------------------------------------------------------
   The substitution leaves every identifier that is not exactly a key as it
   is: one that contains a key, and one that spells a key in another case. *)
C4_LongerIdentifiersKept ==
    Done("subst") =>
        \E before \in {Tokens(content)}, after \in {Tokens(modified_content)} :
            /\ Len(after) = Len(before)
            /\ \A n \in 1..Len(before) : before[n] \notin Keys => after[n] = before[n]

C4_Witness ==
    /\ Done("subst")
    /\ replacements_made # << >>
    /\ \E n \in 1..Len(Tokens(content)) :
          /\ ProperlyContains(Tokens(content)[n], camel(6))
          /\ Tokens(modified_content)[n] = Tokens(content)[n]
    /\ \E n \in 1..Len(Tokens(content)) :
          /\ Tokens(content)[n] = <<"U","s","e","r","I","d">>
          /\ Tokens(modified_content)[n] = Tokens(content)[n]

(* ---- C5 --------------------------------------------------------------
   The count convert_sql_file returns is the number of distinct pairs whose
   source token is an identifier of the content (no value of the table is a
   key, so this is the content each pair finds), not the number of
   occurrences; the INSERT of the scenario returns 3. *)
C5_CountsDistinctPairs ==
    /\ pc = "main" => \A j, k \in 1..NPairs : snake(j) # camel(k)
    /\ (pc = "loop" /\ Len(Lines(ReportMsgs)) > 0) =>
          LET l == Lines(ReportMsgs)[Len(Lines(ReportMsgs))]
          IN  /\ \E present \in {KeysPresent(content)} :
                    /\ l.n = Cardinality(present)
                    /\ { l.made[n] : n \in 1..Len(l.made) } = present
              /\ l.n = Len(l.made)
              /\ content = InsertUsers => l.n = 3

C5_Witness ==
    /\ pc = "loop"
    /\ Len(Lines(ReportMsgs)) > 0
    /\ Lines(ReportMsgs)[1].n = 1
    /\ Len(SelectSeq(Tokens(content), LAMBDA t : t \in Keys)) = 2

(* ---- C6 --------------------------------------------------------------
   As claimed: a run on a file with no key as a whole token makes no
   replacement and leaves the file byte-identical. *)
C6_NoKeyFileUntouched ==
    (Finished /\ KeysPresent(entry) = {}) =>
        /\ replacements_made = << >>
        /\ fs[i] = entry

(* As the code has it: a run on a file with no key as a whole token makes
   no replacement and leaves its text unchanged, only line endings being
   rewritten as os.linesep; a second run on a file the first run converted
   makes no replacement and leaves the file byte-identical. *)
C6_SecondRunIdempotent ==
    /\ (Finished /\ KeysPresent(entry) = {}) =>
          /\ replacements_made = << >>
          /\ read(fs[i]) = read(entry)
    /\ (Finished /\ Len(hist) >= 2) =>
          /\ replacements_made = << >>
          /\ fs[i] = entry

C6_Witness ==
    /\ Finished
    /\ Len(hist) = 2
    /\ KeysPresent(hist[1][i]) # {}
    /\ \E p \in 1..Len(entry) : entry[p] = "LF"
    /\ fs[i] = entry

(* ---- C7 --------------------------------------------------------------
   When the run prints its summary: every file of the list was visited once
   and in list order, a missing one by a warning and nothing else, an
   existing one by convert_sql_file, and the total is the sum of the counts
   returned for the existing files. *)
RECURSIVE SumCounts(_)
SumCounts(ls) == IF ls = << >> THEN 0 ELSE Head(ls).n + SumCounts(Tail(ls))

C7_MissingFilesSkipped ==
    (pc = "returned" /\ dirExists) =>
        LET visits == Lines({"Processing file", "Warning: File not found"})
            reports == Lines(ReportMsgs)
            present == SelectSeq(Positions(sql_files), LAMBDA f : AtStart[f] # Missing)
        IN  /\ Len(visits) = Len(sql_files)
            /\ \A f \in Files :
                  /\ visits[f].file = f
                  /\ visits[f].msg = IF AtStart[f] = Missing
                                     THEN "Warning: File not found"
                                     ELSE "Processing file"
                  /\ AtStart[f] = Missing =>
                        /\ \A n \in 1..Len(ops) : ops[n].file # f
                        /\ fs[f] = Missing /\ bak[f] = Missing
            /\ [n \in 1..Len(reports) |-> reports[n].file] = present
            /\ Len(Lines(SummaryMsgs)) = 1
            /\ out[Len(out)].msg \in SummaryMsgs
            /\ out[Len(out)].n = SumCounts(reports)

C7_Witness ==
    /\ pc = "returned"
    /\ dirExists
    /\ AtStart[2] = Missing /\ AtStart[4] = Missing
    /\ out[Len(out)].n = 4

(* ---- C8 --------------------------------------------------------------
   Without the base directory main prints the error and returns: no file
   operation, no backup, no change on disk, no summary. *)
C8_NoDirectoryNoOperation ==
    ~dirExists =>
        /\ ops = << >>
        /\ fs = hist[1]
        /\ \A f \in Files : bak[f] = Missing
        /\ Len(Lines(SummaryMsgs)) = 0
        /\ pc \in {"main", "returned"}
        /\ pc = "returned" => out = <<Line("Error: Backup directory not found", 0, << >>, 0)>>

C8_Witness ==
    /\ ~dirExists
    /\ pc = "returned"

(* ---- C9 --------------------------------------------------------------
   As claimed: the copy to .backup precedes the read, so a failed read finds
   the backup created. *)
C9_BackupBeforeLoad ==
    /\ \A n \in 1..Len(ops) : ops[n].op = "read" => CopiedBefore(n)
    /\ Failed("read") => bak[i] # Missing

(* As the code has it: the steps run in the order load, backup, substitute,
   persist; the copy is made only after the content has been read, so a
   failed read leaves no backup created or refreshed by that invocation. *)
C9_LoadBeforeBackup ==
    /\ \A n \in 1..Len(ops) : ops[n].op = "copy" => ReadBefore(n)
    /\ \A n \in 1..Len(ops) : ops[n].op = "write" => CopiedBefore(n)
    /\ Done("write") => Done("subst") /\ Done("backup")
    /\ Done("subst") => Done("read")
    /\ Failed("read") =>
          /\ \A n \in 1..Len(ops) : ~(ops[n].op = "copy" /\ ops[n].file = i)
          /\ Len(hist) = 1 => bak[i] = Missing

C9_Witness ==
    /\ Failed("read")
    /\ ~Decodable(fs[i])
    /\ bak[i] = Missing

(* ---- C10 -------------------------------------------------------------
   A failed read, copy or write is the last thing the run does: the process
   has ended at that file, no later file was visited, no summary was
   printed, and every earlier existing file is converted with the backup of
   its previous content in place. *)
C10_FailFastNoRollback ==
    \A n \in 1..Len(ops) : ~ops[n].ok =>
        /\ n = Len(ops)
        /\ pc = "crashed"
        /\ ~ENABLED Next
        /\ ops[n].file = i
        /\ \A m \in 1..Len(ops) : ops[m].file <= i
        /\ \A m \in 1..Len(out) : out[m].file <= i
        /\ Len(Lines(SummaryMsgs)) = 0
        /\ \A f \in 1..(i - 1) : AtStart[f] # Missing =>
              /\ KeysPresent(fs[f]) = {}
              /\ RenamedOnly(read(AtStart[f]), read(fs[f]))
              /\ bak[f] = AtStart[f]

C10_Witness ==
    /\ pc = "crashed"
    /\ i = 3
    /\ KeysPresent(AtStart[1]) # {} /\ KeysPresent(AtStart[2]) # {}
    /\ fs[5] # Missing

=============================================================================
